---- MODULE Spec2Model ----
(***************************************************************************)
(* KmmBot: the role reconciliation engine (pending sweep, entitlement      *)
(* sweep, join handler), the ?verify transaction of the gateway bot and    *)
(* the /verify interaction of the HTTP worker, as a state machine.         *)
(*                                                                         *)
(* Every asynchronous function is a task with a program counter.  A step   *)
(* of a task resumes it from one await and runs the synchronous code up to *)
(* the next await; the effect of the awaited adapter call (a role added,   *)
(* a role removed, a message sent) is applied in the step that resumes     *)
(* from it.  An adapter call succeeds or fails by nondeterministic choice. *)
(* Awaits of logEvent (which never throws, lines 50-67) are not            *)
(* suspension points of their own: the log line is recorded in the step    *)
(* that issues it.                                                         *)
(***************************************************************************)
EXTENDS Integers, FiniteSets, Sequences, TLC

\* Bounds of the model.
NMembers == 2
MaxPos == 3
MaxCalls == 2
MaxFailures == 2
MaxContent == 2
MaxHealFailures == 1

Members == 1..NMembers

\* Configuration (part_000 lines 6-19).
unverifiedRoleId == "unverified"
memberRoleId == "member"
patreonRoleIds == {"patreonA", "patreonB"}
VERIFY_COMMAND == "?verify"

\* A role that is not policy-significant (a moderator role, a colour role).
otherRoleId == "other"
PolicyRoleIds == {unverifiedRoleId, memberRoleId} \cup patreonRoleIds
RoleIds == PolicyRoleIds \cup {otherRoleId}

\* The callers of assignUnverifiedRole, by the reason they pass (lines 304
\* and 154), and a direct call with the default reason (line 74).
JoinReason == "New member join"
SweepReason == "Periodic no-role check"
DefaultReason == "Role check"
Reasons == {JoinReason, SweepReason, DefaultReason}

VARIABLES
    guild,    \* the directory: manageRoles, botPos, rolePos (the roles that exist, with their positions)
    cache,    \* guild.members.cache: the members of the guild
    bot,      \* member.user.bot
    roles,    \* member.roles.cache, without the implicit @everyone role
    roles0,   \* the role sets when the behaviour started (history)
    channel,  \* the messages of the verification channel
    asg,      \* the invocations of assignUnverifiedRole, by caller and member
    join,     \* the GuildMemberAdd handlers, by member
    sw,       \* checkAndAssignUnverifiedRoles (the pending sweep)
    pat,      \* checkPatreonMembers (the entitlement sweep)
    ver,      \* the MessageCreate handlers (?verify), by member
    http,     \* the fetch handlers of the HTTP worker (/verify), by member
    hist,     \* what each completed direct call of assignUnverifiedRole did (history)
    ready,    \* the ClientReady handler: where it is, "armed" once both timers are set
    second,   \* a run of each sweep started while the run before it is in progress
    faults    \* how many adapter calls may still fail (Unlimited: any number)

vars == <<guild, cache, bot, roles, roles0, channel, asg, join, sw, pat, ver, http, hist,
          ready, second, faults>>

----------------------------------------------------------------------------
\* The directory.

\* guild.roles.fetch(id).catch(() => null): the role's position, or null
\* when the role does not exist or the fetch failed.
null == 0

RoleFetch(id, ok) ==
    IF ok /\ id \in DOMAIN guild.rolePos THEN guild.rolePos[id] ELSE null

\* Mutant: the comparison is strict, so a role at the bot's own position
\* counts as manageable.
TooHighStrict(pos) == pos > guild.botPos

\* role.position >= botMember.roles.highest.position (lines 96, 139, 211, 216, 426, 431)
TooHigh(pos) == pos >= guild.botPos

\* botMember?.permissions.has(ManageRoles) (lines 82, 126, 179, 356)
HasManageRoles == guild.manageRoles

\* member.roles.cache.size: the roles held plus @everyone
CacheSize(m) == Cardinality(roles[m]) + 1

Has(m, id) == id \in roles[m]

\* The directories the model starts from: each policy role exists or not,
\* the unverified and member roles at any position (below, at or above
\* the bot's highest role), the entitlement roles at a fixed one (their
\* position is never read).
RolePositions ==
    UNION { { f \in [S -> 1..MaxPos] : \A p \in S \cap patreonRoleIds : f[p] = 1 }
            : S \in SUBSET PolicyRoleIds }

Guilds ==
    [manageRoles : BOOLEAN, botPos : {MaxPos - 1}, rolePos : RolePositions]

\* A member holds only roles that exist (the other role always does).
RoleSets(g) == SUBSET ((DOMAIN g.rolePos) \cup {otherRoleId})

\* A directory in which every capability check passes.
AllChecksPass(g) ==
    /\ g.manageRoles
    /\ unverifiedRoleId \in DOMAIN g.rolePos
    /\ memberRoleId \in DOMAIN g.rolePos
    /\ g.rolePos[unverifiedRoleId] < g.botPos
    /\ g.rolePos[memberRoleId] < g.botPos
    /\ patreonRoleIds \cap DOMAIN g.rolePos # {}

----------------------------------------------------------------------------
\* Tasks.  Each record keeps what its invocation did: the role mutation
\* calls it issued, the log lines it wrote, whether an adapter call failed.

Call(op, id, m) == <<op, id, m>>
Line(kind, m) == <<kind, m>>
Global(kind) == <<kind, 0>>      \* a log line that is about no single member

IdleTask == [pc |-> "idle", calls |-> {}, log |-> {}, failed |-> FALSE]

Emit(t, line) == [t EXCEPT !.log = @ \cup {line}]
Issue(t, c) == [t EXCEPT !.calls = @ \cup {c}]
Fail(t) == [t EXCEPT !.failed = TRUE]
At(t, pc) == [t EXCEPT !.pc = pc]

\* A task that was started and has not ended.
Running(pc) == pc \notin {"idle", "done", "ignored"}

\* An adapter call succeeds (TRUE) or fails (FALSE).  A specification
\* starts with faults = Unlimited (any call may fail), or with a number of
\* failures that may still happen.
Unlimited == 0 - 1
Outcomes == IF faults = 0 THEN {TRUE} ELSE BOOLEAN
Spend(ok) == faults' = IF ok \/ faults = Unlimited THEN faults ELSE faults - 1
Result(t, ok) == IF ok THEN t ELSE Fail(t)

----------------------------------------------------------------------------
\* assignUnverifiedRole(member, reason), lines 74-111.

\* Mutant: the test of the Manage Roles permission (lines 81-86) left out.
AssignEntryUnchecked(m) ==
    IF bot[m] THEN At(IdleTask, "done") ELSE At(IdleTask, "fetch")

\* Lines 75-86, the synchronous part of the call: a bot is ignored, a
\* missing Manage Roles permission is logged, otherwise the role is fetched.
AssignEntry(m) ==
    IF bot[m] THEN At(IdleTask, "done")
    ELSE IF ~HasManageRoles
         THEN Emit(At(IdleTask, "done"), Line("denied", m))
         ELSE At(IdleTask, "fetch")

\* Mutant: the role is added without looking at the member's roles (the
\* test of line 102 left out).
AssignAfterFetchUnconditional(t, m, role) ==
    IF role = null THEN Emit(At(t, "done"), Line("notfound", m))
    ELSE IF TooHigh(role) THEN Emit(At(t, "done"), Line("hierarchy", m))
    ELSE Issue(At(t, "add"), Call("add", unverifiedRoleId, m))

\* Lines 88-106, after the fetch of the unverified role (role: its position
\* or null): not found, too high, already held, or the add is issued.
AssignAfterFetch(t, m, role) ==
    IF role = null THEN Emit(At(t, "done"), Line("notfound", m))
    ELSE IF TooHigh(role) THEN Emit(At(t, "done"), Line("hierarchy", m))
    ELSE IF ~Has(m, unverifiedRoleId)
         THEN Issue(At(t, "add"), Call("add", unverifiedRoleId, m))
         ELSE At(t, "done")

\* Lines 104-110, after member.roles.add: the success line, or the catch.
AssignAfterAdd(t, m, ok) ==
    IF ok THEN Emit(At(t, "done"), Line("assigned", m))
    ELSE Emit(Fail(At(t, "done")), Line("error", m))

\* member.roles.add(role) and member.roles.remove(role), as the directory
\* applies them.
AddRole(m, id) == [roles EXCEPT ![m] = @ \cup {id}]
RemoveRole(m, id) == [roles EXCEPT ![m] = @ \ {id}]

assignUnverifiedRole_fetched(r, m) ==
    /\ asg[<<r, m>>].pc = "fetch"
    /\ \E ok \in Outcomes :
          /\ asg' = [asg EXCEPT ![<<r, m>>] =
                        AssignAfterFetch(Result(@, ok), m, RoleFetch(unverifiedRoleId, ok))]
          /\ Spend(ok)
    /\ UNCHANGED <<guild, cache, bot, roles, roles0, channel, join, sw, pat, ver, http, hist, ready, second>>

assignUnverifiedRole_added(r, m) ==
    /\ asg[<<r, m>>].pc = "add"
    /\ \E ok \in Outcomes :
          /\ asg' = [asg EXCEPT ![<<r, m>>] = AssignAfterAdd(@, m, ok)]
          /\ roles' = IF ok THEN AddRole(m, unverifiedRoleId) ELSE roles
          /\ Spend(ok)
    /\ UNCHANGED <<guild, cache, bot, roles0, channel, join, sw, pat, ver, http, hist, ready, second>>

----------------------------------------------------------------------------
\* The GuildMemberAdd handler, lines 297-327.

\* A message of the verification channel: its author (the bot or a user),
\* what it is, and the member it is from or about.
Welcome(m) == <<"bot", "welcome", m>>

\* A member joins: holding no role yet, it enters the members cache and
\* the handler runs up to its first await (lines 298-304).
GuildMemberAdd(m) ==
    /\ m \notin cache
    /\ join[m] = "idle"
    /\ cache' = cache \cup {m}
    /\ IF bot[m]
       THEN /\ join' = [join EXCEPT ![m] = "done"]
            /\ asg' = asg
       ELSE /\ join' = [join EXCEPT ![m] = "assign"]
            /\ asg' = [asg EXCEPT ![<<JoinReason, m>>] = AssignEntry(m)]
    /\ UNCHANGED <<guild, bot, roles, roles0, channel, sw, pat, ver, http, hist, faults, ready, second>>

\* Lines 306-326, once assignUnverifiedRole has returned: the welcome
\* message is sent to the verification channel, or the failure is logged.
GuildMemberAdd_welcome(m) ==
    /\ join[m] = "assign"
    /\ asg[<<JoinReason, m>>].pc = "done"
    /\ \E ok \in Outcomes :
          /\ channel' = IF ok THEN channel \cup {Welcome(m)} ELSE channel
          /\ Spend(ok)
    /\ join' = [join EXCEPT ![m] = "done"]
    /\ UNCHANGED <<guild, cache, bot, roles, roles0, asg, sw, pat, ver, http, hist, ready, second>>

----------------------------------------------------------------------------
\* checkAndAssignUnverifiedRoles, lines 116-163 (the pending sweep).

\* Mutant: the size test of line 151 does not count @everyone.
NeedsUnverifiedOffByOne(m) ==
    /\ ~bot[m]
    /\ CacheSize(m) = 0
    /\ ~Has(m, unverifiedRoleId)

\* Lines 149-153: the members the sweep calls assignUnverifiedRole for.
NeedsUnverified(m) ==
    /\ ~bot[m]
    /\ CacheSize(m) = 1
    /\ ~Has(m, unverifiedRoleId)

\* Line 119: the sweep starts and fetches the guild.
checkAndAssignUnverifiedRoles ==
    /\ sw.pc \in {"idle", "done"}
    /\ \A m \in Members : asg[<<SweepReason, m>>].pc \in {"idle", "done"}
    /\ sw' = At(IdleTask, "guild")
    /\ UNCHANGED <<guild, cache, bot, roles, roles0, channel, asg, join, pat, ver, http, hist, faults, ready, second>>

\* Lines 119-132: the guild is there (a failed fetch throws to the catch of
\* line 159), the permission is checked, the role is fetched.
checkAndAssignUnverifiedRoles_guild ==
    /\ sw.pc = "guild"
    /\ \E ok \in Outcomes :
          /\ sw' = IF ~ok THEN Emit(Fail(At(sw, "done")), Global("error"))
                   ELSE IF ~HasManageRoles THEN Emit(At(sw, "done"), Global("denied"))
                   ELSE At(sw, "role")
          /\ Spend(ok)
    /\ UNCHANGED <<guild, cache, bot, roles, roles0, channel, asg, join, pat, ver, http, hist, ready, second>>

\* Lines 132-146: the role is there and below the bot's highest role; the
\* members are fetched.
SweepAfterFetch(t, role) ==
    IF role = null THEN Emit(At(t, "done"), Global("notfound"))
    ELSE IF TooHigh(role) THEN Emit(At(t, "done"), Global("hierarchy"))
    ELSE At(t, "members")

checkAndAssignUnverifiedRoles_role ==
    /\ sw.pc = "role"
    /\ \E ok \in Outcomes :
          /\ sw' = SweepAfterFetch(Result(sw, ok), RoleFetch(unverifiedRoleId, ok))
          /\ Spend(ok)
    /\ UNCHANGED <<guild, cache, bot, roles, roles0, channel, asg, join, pat, ver, http, hist, ready, second>>

\* Lines 146-157: over the fetched members, assignUnverifiedRole is called
\* and not awaited for each member that needs it; each call runs its
\* synchronous part at once, and the sweep prints that it has finished.
SweepCalls ==
    [k \in DOMAIN asg |->
        IF k[1] = SweepReason /\ k[2] \in cache /\ NeedsUnverified(k[2])
        THEN AssignEntry(k[2])
        ELSE asg[k]]

checkAndAssignUnverifiedRoles_members ==
    /\ sw.pc = "members"
    /\ \E ok \in Outcomes :
          /\ sw' = IF ok THEN At(sw, "done")
                   ELSE Emit(Fail(At(sw, "done")), Global("error"))
          /\ asg' = IF ok THEN SweepCalls ELSE asg
          /\ Spend(ok)
    /\ UNCHANGED <<guild, cache, bot, roles, roles0, channel, join, pat, ver, http, hist, ready, second>>

----------------------------------------------------------------------------
\* checkPatreonMembers, lines 168-269 (the entitlement sweep).

\* queue: the members of membersToUpdate not yet finished, the head being
\* the one in progress; unv: the unverified role as fetched (or null);
\* found: the entitlement roles that were fetched.
PatIdle ==
    [pc |-> "idle", calls |-> {}, log |-> {}, failed |-> FALSE,
     queue |-> <<>>, unv |-> null, found |-> {}]

\* The members of a set in the order of the cache (by member id).
RECURSIVE InOrder(_)
InOrder(S) ==
    IF S = {} THEN <<>>
    ELSE LET m == CHOOSE x \in S : \A y \in S : x <= y
         IN <<m>> \o InOrder(S \ {m})

\* Mutant: the filter has lost its test of member.user.bot (line 229).
membersToUpdateWithBots(found) ==
    { m \in cache : /\ ~Has(m, memberRoleId)
                    /\ \E p \in found : Has(m, p) }

\* Lines 228-232: the members that hold at least one of the fetched
\* entitlement roles and not the member role.
membersToUpdate(found) ==
    { m \in cache : /\ ~bot[m]
                    /\ ~Has(m, memberRoleId)
                    /\ \E p \in found : Has(m, p) }

\* Line 171: the sweep starts and fetches the guild.
checkPatreonMembers ==
    /\ pat.pc \in {"idle", "done"}
    /\ pat' = At(PatIdle, "guild")
    /\ UNCHANGED <<guild, cache, bot, roles, roles0, channel, asg, join, sw, ver, http, hist, faults, ready, second>>

\* Lines 171-191: the permission is checked and the roles are fetched.
checkPatreonMembers_guild ==
    /\ pat.pc = "guild"
    /\ \E ok \in Outcomes :
          /\ pat' = IF ~ok THEN Emit(Fail(At(pat, "done")), Global("error"))
                    ELSE IF ~HasManageRoles THEN Emit(At(pat, "done"), Global("denied"))
                    ELSE At(pat, "roles")
          /\ Spend(ok)
    /\ UNCHANGED <<guild, cache, bot, roles, roles0, channel, asg, join, sw, ver, http, hist, ready, second>>

\* Lines 209-221: canManageRequiredRoles, from the member role and the
\* unverified role (when it was found).
HierarchyLines(memberRole, unv) ==
    (IF TooHigh(memberRole) THEN {Global("hierarchy member")} ELSE {})
    \cup (IF unv # null /\ TooHigh(unv) THEN {Global("hierarchy unverified")} ELSE {})

\* Lines 185-225, after the fetches (each role: its position or null).
PatAfterFetch(t, memberRole, unv, found) ==
    IF memberRole = null THEN Emit(At(t, "done"), Global("notfound"))
    ELSE IF found = {} THEN Emit(At(t, "done"), Global("nopatreon"))
    ELSE IF HierarchyLines(memberRole, unv) # {}
         THEN [At(t, "done") EXCEPT !.log = @ \cup HierarchyLines(memberRole, unv)]
         ELSE [At(t, "members") EXCEPT !.unv = unv, !.found = found]

checkPatreonMembers_roles ==
    /\ pat.pc = "roles"
    /\ \E okM, okU, okP \in Outcomes :
          /\ pat' = PatAfterFetch(Result(pat, okM /\ okU /\ okP),
                                  RoleFetch(memberRoleId, okM),
                                  RoleFetch(unverifiedRoleId, okU),
                                  IF okP THEN patreonRoleIds \cap DOMAIN guild.rolePos ELSE {})
          /\ Spend(okM /\ okU /\ okP)
    /\ UNCHANGED <<guild, cache, bot, roles, roles0, channel, asg, join, sw, ver, http, hist, ready, second>>

\* Lines 238-245: the loop takes the next member and issues the add of the
\* member role, or the sweep is finished.
PatNext(t, queue) ==
    IF queue = <<>> THEN [At(t, "done") EXCEPT !.queue = queue]
    ELSE Issue([At(t, "add") EXCEPT !.queue = queue],
               Call("add", memberRoleId, Head(queue)))

\* Lines 225-238, after the fetch of the members.
checkPatreonMembers_members ==
    /\ pat.pc = "members"
    /\ \E ok \in Outcomes :
          /\ pat' = IF ~ok THEN Emit(Fail(At(pat, "done")), Global("error"))
                    ELSE IF membersToUpdate(pat.found) = {} THEN At(pat, "done")
                    ELSE PatNext(Emit(pat, Global("found")), InOrder(membersToUpdate(pat.found)))
          /\ Spend(ok)
    /\ UNCHANGED <<guild, cache, bot, roles, roles0, channel, asg, join, sw, ver, http, hist, ready, second>>

\* Mutant: the unverified role is never stripped (lines 249-252 left out).
PatAfterAddKeeps(t, m, ok) ==
    IF ~ok THEN PatNext(Emit(Fail(t), Line("error", m)), Tail(t.queue))
    ELSE PatNext(Emit(t, Line("assigned", m)), Tail(t.queue))

\* Mutant: the remove of the unverified role is issued whether or not the
\* add of the member role succeeded.
PatAfterAddRegardless(t, m, ok) ==
    IF t.unv # null /\ Has(m, unverifiedRoleId)
    THEN Issue(Result(At(t, "remove"), ok), Call("remove", unverifiedRoleId, m))
    ELSE PatNext(Emit(Result(t, ok), Line("assigned", m)), Tail(t.queue))

\* Lines 245-258, after the add of the member role: the remove of the
\* unverified role is issued when the role was found and the member holds
\* it; otherwise the outcome is logged and the loop goes on.
PatAfterAdd(t, m, ok) ==
    IF ~ok THEN PatNext(Emit(Fail(t), Line("error", m)), Tail(t.queue))
    ELSE IF t.unv # null /\ Has(m, unverifiedRoleId)
         THEN Issue(At(t, "remove"), Call("remove", unverifiedRoleId, m))
         ELSE PatNext(Emit(t, Line("assigned", m)), Tail(t.queue))

checkPatreonMembers_added ==
    /\ pat.pc = "add"
    /\ \E ok \in Outcomes :
          /\ pat' = PatAfterAdd(pat, Head(pat.queue), ok)
          /\ roles' = IF ok THEN AddRole(Head(pat.queue), memberRoleId) ELSE roles
          /\ Spend(ok)
    /\ UNCHANGED <<guild, cache, bot, roles0, channel, asg, join, sw, ver, http, hist, ready, second>>

\* Lines 250-258, after the remove of the unverified role.
PatAfterRemove(t, m, ok) ==
    IF ok THEN PatNext(Emit(t, Line("assigned", m)), Tail(t.queue))
    ELSE PatNext(Emit(Fail(t), Line("error", m)), Tail(t.queue))

checkPatreonMembers_removed ==
    /\ pat.pc = "remove"
    /\ \E ok \in Outcomes :
          /\ pat' = PatAfterRemove(pat, Head(pat.queue), ok)
          /\ roles' = IF ok THEN RemoveRole(Head(pat.queue), unverifiedRoleId) ELSE roles
          /\ Spend(ok)
    /\ UNCHANGED <<guild, cache, bot, roles0, channel, asg, join, sw, ver, http, hist, ready, second>>

----------------------------------------------------------------------------
\* The MessageCreate handler, lines 330-541 (the ?verify transaction).

Command(m) == <<"user", "command", m>>   \* the member's ?verify message
Reply(m) == <<"bot", "reply", m>>        \* the bot's reply to it

\* A message content is a sequence of tokens: a blank, the keyword in
\* lower, upper or mixed case, or another word.
Blank == " "
Tokens == {Blank, "?verify", "?VERIFY", "?Verify", "hello"}
Contents == UNION {[1..n -> Tokens] : n \in 0..MaxContent}

\* content.toLowerCase()
toLowerCase(content) ==
    [i \in DOMAIN content |->
        IF content[i] \in {"?VERIFY", "?Verify"} THEN "?verify" ELSE content[i]]

\* content.trim(): the blanks at both ends are dropped.
RECURSIVE trimStart(_)
trimStart(content) ==
    IF content # <<>> /\ Head(content) = Blank THEN trimStart(Tail(content))
    ELSE content

RECURSIVE trimEnd(_)
trimEnd(content) ==
    IF content # <<>> /\ content[Len(content)] = Blank
    THEN trimEnd(SubSeq(content, 1, Len(content) - 1))
    ELSE content

trim(content) == trimEnd(trimStart(content))

\* A posted message: whether it is in the configured guild and in the
\* verification channel, and its content.  Its author is the user m the
\* handler runs for; message.member is null when m is not in the cache.
Messages == [inGuild : BOOLEAN, inChannel : BOOLEAN, content : Contents]
VerifyMessage == [inGuild |-> TRUE, inChannel |-> TRUE, content |-> <<VERIFY_COMMAND>>]

\* Mutant: the guard has lost its test of the channel (line 332).
IgnoredAnyChannel(m, msg) ==
    \/ bot[m]
    \/ ~msg.inGuild
    \/ toLowerCase(trim(msg.content)) # <<VERIFY_COMMAND>>

\* Line 332: the message is ignored.
Ignored(m, msg) ==
    \/ bot[m]
    \/ ~msg.inGuild
    \/ ~msg.inChannel
    \/ toLowerCase(trim(msg.content)) # <<VERIFY_COMMAND>>

\* msg: the message handled; replies: the texts replied, in order; dels:
\* the messages deleted, in order; the two channel permissions as read at
\* lines 364 and 372; welcomeFound: welcomeMessageToDelete is not null.
VerIdle ==
    [pc |-> "idle", calls |-> {}, log |-> {}, failed |-> FALSE,
     msg |-> VerifyMessage, replies |-> <<>>, dels |-> <<>>,
     canManageMessages |-> FALSE, canReadHistory |-> FALSE, welcomeFound |-> FALSE]

\* await message.reply(text).catch(console.error): the reply is sent, or
\* the failure is swallowed and printed to the console.
Replied(t, text, ok) ==
    IF ok THEN [t EXCEPT !.replies = Append(@, text)]
    ELSE Fail(Emit(t, Global("reply error")))

Deleted(t, what) == [t EXCEPT !.dels = Append(@, what)]

\* The paths that end the transaction early (lines 356-384, 413-422,
\* 436-443, 530-540): the line is logged, the text is replied, and the
\* member's command is deleted when the bot may delete messages.
Abort(t, lines, text, ok) ==
    LET u == Replied([t EXCEPT !.log = @ \cup lines], text, ok)
    IN  At(IF t.canManageMessages THEN Deleted(u, "command") ELSE u, "done")

AbortChannel(ch, t, m, ok) ==
    (ch \cup (IF ok THEN {Reply(m)} ELSE {}))
        \ (IF t.canManageMessages THEN {Command(m)} ELSE {})

\* Lines 363-377: the warnings for the missing channel permissions.
PermissionLines(m, cmm, crh) ==
    (IF cmm THEN {} ELSE {Line("no manage messages", m)})
    \cup (IF crh THEN {} ELSE {Line("no read history", m)})

\* Lines 334-342: message.member is null.  The error is logged and the
\* delete of the message is issued without a look at the permissions; it
\* is not awaited and its failure is swallowed.
MemberMissing(t, m, ok) ==
    LET u == Emit(At(t, "done"), Line("no member", m))
    IN  IF ok THEN Deleted(u, "command") ELSE Fail(u)

\* Lines 330-392.  User m posts the message msg and the handler runs up to
\* its first await; cmm and crh are the bot's Manage Messages and Read
\* Message History permissions in the channel.  An ignored message is not
\* kept in channel, which holds the messages of the verification only.
MessageCreate_message(m, msg) ==
    /\ ver[m].pc = "idle"
    /\ \E cmm, crh \in BOOLEAN, ok \in Outcomes :
          LET t == [VerIdle EXCEPT !.msg = msg,
                                   !.canManageMessages = cmm, !.canReadHistory = crh,
                                   !.log = PermissionLines(m, cmm, crh)]
          IN  IF Ignored(m, msg)
              THEN /\ ok /\ cmm /\ crh
                   /\ ver' = [ver EXCEPT ![m] = [VerIdle EXCEPT !.msg = msg, !.pc = "ignored"]]
                   /\ UNCHANGED <<channel, faults>>
              ELSE IF m \notin cache
              THEN /\ cmm /\ crh
                   /\ ver' = [ver EXCEPT ![m] =
                                MemberMissing([VerIdle EXCEPT !.msg = msg], m, ok)]
                   /\ channel' = IF ok THEN channel ELSE channel \cup {Command(m)}
                   /\ Spend(ok)
              ELSE IF ~HasManageRoles
              THEN /\ ver' = [ver EXCEPT ![m] =
                                Abort(t, {Line("denied", m)}, "no permissions", ok)]
                   /\ channel' = AbortChannel(channel \cup {Command(m)}, t, m, ok)
                   /\ Spend(ok)
              ELSE /\ ok
                   /\ ver' = [ver EXCEPT ![m] =
                                At(t, IF crh /\ cmm THEN "history" ELSE "roles")]
                   /\ channel' = channel \cup {Command(m)}
                   /\ UNCHANGED faults
    /\ UNCHANGED <<guild, cache, bot, roles, roles0, asg, join, sw, pat, http, hist, ready, second>>

\* User m posts the verify keyword in the verification channel.
MessageCreate(m) == MessageCreate_message(m, VerifyMessage)

\* Lines 392-409, after the fetch of the recent messages: the welcome
\* message that mentions the member is looked for.
MessageCreate_history(m) ==
    /\ ver[m].pc = "history"
    /\ \E ok \in Outcomes :
          /\ ver' = [ver EXCEPT ![m] =
                        IF ok THEN [At(@, "roles") EXCEPT !.welcomeFound = Welcome(m) \in channel]
                        ELSE Emit(Fail(At(@, "roles")), Line("history warning", m))]
          /\ Spend(ok)
    /\ UNCHANGED <<guild, cache, bot, roles, roles0, channel, asg, join, sw, pat, http, hist, ready, second>>

\* Lines 424-435: rolesAreManageable.
VerifyHierarchyLines(m, unv, mem) ==
    (IF TooHigh(unv) THEN {Line("hierarchy unverified", m)} ELSE {})
    \cup (IF TooHigh(mem) THEN {Line("hierarchy member", m)} ELSE {})

\* Mutant: the test of line 447 has lost its negation.
VerifyDecisionInverted(m, unv, mem) ==
    IF unv = null \/ mem = null THEN "missing"
    ELSE IF VerifyHierarchyLines(m, unv, mem) # {} THEN "hierarchy"
    ELSE IF Has(m, unverifiedRoleId) THEN "notneeded"
    ELSE "remove"

\* Lines 409-472, after the fetch of the two roles: "missing" or
\* "hierarchy" (a role is missing or too high), "notneeded" (the member
\* does not hold the unverified role) or "remove" (the role swap starts).
VerifyDecision(m, unv, mem) ==
    IF unv = null \/ mem = null THEN "missing"
    ELSE IF VerifyHierarchyLines(m, unv, mem) # {} THEN "hierarchy"
    ELSE IF ~Has(m, unverifiedRoleId) THEN "notneeded"
    ELSE "remove"

MessageCreate_roles(m) ==
    /\ ver[m].pc = "roles"
    /\ \E okU, okM, okR \in Outcomes :
          LET unv == RoleFetch(unverifiedRoleId, okU)
              mem == RoleFetch(memberRoleId, okM)
              d == VerifyDecision(m, unv, mem)
              t == Result(ver[m], okU /\ okM)
          IN  /\ d \in {"notneeded", "remove"} => okR
              /\ ver' = [ver EXCEPT ![m] =
                    CASE d = "missing" ->
                            Abort(t, {Line("notfound", m)}, "roles missing", okR)
                      [] d = "hierarchy" ->
                            Abort(t, VerifyHierarchyLines(m, unv, mem), "hierarchy", okR)
                      [] d = "notneeded" ->
                            Emit(At(t, "notneeded"), Line("not needed", m))
                      [] OTHER ->
                            Issue(At(t, "remove"), Call("remove", unverifiedRoleId, m))]
              /\ channel' = IF d \in {"missing", "hierarchy"}
                            THEN AbortChannel(channel, t, m, okR) ELSE channel
              /\ Spend(okU /\ okM /\ okR)
    /\ UNCHANGED <<guild, cache, bot, roles, roles0, asg, join, sw, pat, http, hist, ready, second>>

\* Lines 449-468, after the "not needed" reply: with the permission, the
\* command and the welcome message are deleted at once and the reply after
\* the delay.
NotNeededCleanup(t) ==
    IF ~t.canManageMessages THEN t
    ELSE LET u == Deleted(t, "command")
         IN  IF t.welcomeFound THEN Deleted(u, "welcome") ELSE u

MessageCreate_notneeded(m) ==
    /\ ver[m].pc = "notneeded"
    /\ \E ok \in Outcomes :
          LET t == NotNeededCleanup(Replied(ver[m], "not needed", ok))
          IN  /\ ver' = [ver EXCEPT ![m] =
                            At(t, IF ok /\ t.canManageMessages THEN "timer" ELSE "done")]
              /\ channel' = (channel \cup (IF ok THEN {Reply(m)} ELSE {}))
                              \ (IF ~t.canManageMessages THEN {}
                                 ELSE {Command(m)} \cup
                                      (IF t.welcomeFound THEN {Welcome(m)} ELSE {}))
              /\ Spend(ok)
    /\ UNCHANGED <<guild, cache, bot, roles, roles0, asg, join, sw, pat, http, hist, ready, second>>

\* Mutant: the top-level catch replies with the confirmation.
CatchConfirms(t, m, ok) == Abort(Fail(t), {Line("top-level error", m)}, "success", ok)

\* Lines 530-540, the top-level catch.
Catch(t, m, ok) == Abort(Fail(t), {Line("top-level error", m)}, "unexpected error", ok)

\* Lines 472-473, after the remove of the unverified role: the add of the
\* member role is issued, or the error is caught.
MessageCreate_removed(m) ==
    /\ ver[m].pc = "remove"
    /\ \E ok, okR \in Outcomes :
          /\ ok => okR
          /\ ver' = [ver EXCEPT ![m] =
                        IF ok THEN Issue(At(@, "add"), Call("add", memberRoleId, m))
                        ELSE Catch(@, m, okR)]
          /\ roles' = IF ok THEN RemoveRole(m, unverifiedRoleId) ELSE roles
          /\ channel' = IF ok THEN channel ELSE AbortChannel(channel, ver[m], m, okR)
          /\ Spend(ok /\ okR)
    /\ UNCHANGED <<guild, cache, bot, roles0, asg, join, sw, pat, http, hist, ready, second>>

\* Lines 473-477, after the add of the member role: the success is logged
\* and the confirmation is replied, or the error is caught.
MessageCreate_added(m) ==
    /\ ver[m].pc = "add"
    /\ \E ok, okR \in Outcomes :
          /\ ok => okR
          /\ ver' = [ver EXCEPT ![m] =
                        IF ok THEN Emit(At(@, "confirm"), Line("verified", m))
                        ELSE Catch(@, m, okR)]
          /\ roles' = IF ok THEN AddRole(m, memberRoleId) ELSE roles
          /\ channel' = IF ok THEN channel ELSE AbortChannel(channel, ver[m], m, okR)
          /\ Spend(ok /\ okR)
    /\ UNCHANGED <<guild, cache, bot, roles0, asg, join, sw, pat, http, hist, ready, second>>

\* How the handler ends: the reply is deleted after the delay when it was
\* sent (lines 503-505, 515-520, 525-527).
Ending(t) == At(t, IF t.replies # <<>> THEN "timer" ELSE "done")

\* Lines 477-493, 522-528, after the confirmation reply.
MessageCreate_confirm(m) ==
    /\ ver[m].pc = "confirm"
    /\ \E ok \in Outcomes :
          LET t == Replied(ver[m], "success", ok)
          IN  /\ ver' = [ver EXCEPT ![m] =
                    IF ~t.canManageMessages THEN Ending(Emit(t, Line("no cleanup", m)))
                    ELSE IF t.welcomeFound THEN At(t, "delwelcome")
                    ELSE At(t, "refetch")]
              /\ channel' = channel \cup (IF ok THEN {Reply(m)} ELSE {})
              /\ Spend(ok)
    /\ UNCHANGED <<guild, cache, bot, roles, roles0, asg, join, sw, pat, http, hist, ready, second>>

\* Mutant: together with the welcome message, the handler deletes the
\* command it was called with, before the fresh fetch.
MessageCreate_delwelcomeAndCommand(m) ==
    /\ ver[m].pc = "delwelcome"
    /\ \E ok \in Outcomes :
          /\ ver' = [ver EXCEPT ![m] =
                        Emit(At(IF ok THEN Deleted(Deleted(@, "welcome"), "command")
                                ELSE Emit(Fail(@), Line("welcome warning", m)), "refetch"),
                             Line("deleted welcome", m))]
          /\ channel' = IF ok THEN channel \ {Welcome(m), Command(m)} ELSE channel
          /\ Spend(ok)
    /\ UNCHANGED <<guild, cache, bot, roles, roles0, asg, join, sw, pat, http, hist, ready, second>>

\* Lines 484-493, after the delete of the welcome message: its failure is
\* swallowed with a warning on the console, and the line is logged all the
\* same.
MessageCreate_delwelcome(m) ==
    /\ ver[m].pc = "delwelcome"
    /\ \E ok \in Outcomes :
          /\ ver' = [ver EXCEPT ![m] =
                        Emit(At(IF ok THEN Deleted(@, "welcome")
                                ELSE Emit(Fail(@), Line("welcome warning", m)), "refetch"),
                             Line("deleted welcome", m))]
          /\ channel' = IF ok THEN channel \ {Welcome(m)} ELSE channel
          /\ Spend(ok)
    /\ UNCHANGED <<guild, cache, bot, roles, roles0, asg, join, sw, pat, http, hist, ready, second>>

\* Lines 493-521, after the fresh fetch of the channel: the member's
\* messages are deleted, or the failure is caught by the inner catch.
UserMessages(m) == { msg \in channel : msg[1] = "user" /\ msg[3] = m }

MessageCreate_refetch(m) ==
    /\ ver[m].pc = "refetch"
    /\ \E ok \in Outcomes :
          /\ ver' = [ver EXCEPT ![m] =
                        IF ~ok THEN Ending(Emit(Fail(@), Line("cleanup error", m)))
                        ELSE IF UserMessages(m) # {} THEN At(@, "delmsgs")
                        ELSE Ending(@)]
          /\ Spend(ok)
    /\ UNCHANGED <<guild, cache, bot, roles, roles0, channel, asg, join, sw, pat, http, hist, ready, second>>

\* Mutant: after a failed delete of the member's messages the cleanup
\* starts again from the fetch.
MessageCreate_delmsgsRetries(m) ==
    /\ ver[m].pc = "delmsgs"
    /\ \E ok \in Outcomes :
          /\ ver' = [ver EXCEPT ![m] =
                        IF ok THEN Ending(Emit(Deleted(@, "command"), Line("deleted messages", m)))
                        ELSE At(Emit(Fail(@), Line("cleanup error", m)), "refetch")]
          /\ channel' = IF ok THEN channel \ UserMessages(m) ELSE channel
          /\ Spend(ok)
    /\ UNCHANGED <<guild, cache, bot, roles, roles0, asg, join, sw, pat, http, hist, ready, second>>

MessageCreate_delmsgs(m) ==
    /\ ver[m].pc = "delmsgs"
    /\ \E ok \in Outcomes :
          /\ ver' = [ver EXCEPT ![m] =
                        IF ok THEN Ending(Emit(Deleted(@, "command"), Line("deleted messages", m)))
                        ELSE Ending(Emit(Fail(@), Line("cleanup error", m)))]
          /\ channel' = IF ok THEN channel \ UserMessages(m) ELSE channel
          /\ Spend(ok)
    /\ UNCHANGED <<guild, cache, bot, roles, roles0, asg, join, sw, pat, http, hist, ready, second>>

\* The setTimeout callbacks of lines 465, 504, 519 and 526: after
\* MESSAGE_DELETE_DELAY the reply is deleted (a failure is swallowed).
MessageCreate_timeout(m) ==
    /\ ver[m].pc = "timer"
    /\ \E ok \in Outcomes :
          /\ ver' = [ver EXCEPT ![m] = At(IF ok THEN Deleted(@, "reply") ELSE Fail(@), "done")]
          /\ channel' = IF ok THEN channel \ {Reply(m)} ELSE channel
          /\ Spend(ok)
    /\ UNCHANGED <<guild, cache, bot, roles, roles0, asg, join, sw, pat, http, hist, ready, second>>

----------------------------------------------------------------------------
\* fetch(request, env) of the HTTP worker, index.js lines 11-97 (/verify).

\* request: the method, the X-Signature-Ed25519 header (absent, or a
\* signature that nacl.sign.detached.verify rejects or accepts) and the
\* interaction type (1: ping, 2: the verify command, 3: anything else).
HttpTypes == 1..3

HttpRequests ==
    [method : {"POST", "GET"}, signature : {"absent", "invalid", "valid"}, type : HttpTypes]

NoRequest == [method |-> "none", signature |-> "absent", type |-> 3]

HttpIdle ==
    [pc |-> "idle", calls |-> {}, log |-> {}, failed |-> FALSE, response |-> "none",
     request |-> NoRequest]

Respond(t, r) == [At(t, "done") EXCEPT !.response = r]

\* Lines 83-91: the catch of the verify command.
HttpCatch(t) == Respond(Fail(t), "failed")

\* Lines 13-49, up to the fetch of the member.  Without the signature
\* header, headers.get gives null and hexToUint8Array(null) (line 7)
\* throws at line 25: the handler rejects and sends no response of its own.
HttpEntry(req) ==
    LET t == [HttpIdle EXCEPT !.request = req]
    IN  IF req.method # "POST" THEN Respond(t, "405")
        ELSE IF req.signature = "absent" THEN Respond(Fail(t), "exception")
        ELSE IF req.signature # "valid" THEN Respond(t, "401")
        ELSE IF req.type = 1 THEN Respond(t, "pong")
        ELSE IF req.type = 2 THEN At(t, "get")
        ELSE Respond(t, "400")

fetch(m) ==
    /\ ~bot[m]
    /\ http[m].pc = "idle"
    /\ \E req \in HttpRequests : http' = [http EXCEPT ![m] = HttpEntry(req)]
    /\ UNCHANGED <<guild, cache, bot, roles, roles0, channel, asg, join, sw, pat, ver, hist, faults, ready, second>>

\* Lines 53-68, after rest.get of the member (which fails for a user that
\* is not a member of the guild).
HttpAfterGet(t, m, ok) ==
    IF ~ok \/ m \notin cache THEN HttpCatch(t)
    ELSE IF ~Has(m, unverifiedRoleId) THEN Respond(t, "not needed")
    ELSE Issue(At(t, "put"), Call("add", memberRoleId, m))

fetch_get(m) ==
    /\ http[m].pc = "get"
    /\ \E ok \in Outcomes :
          /\ http' = [http EXCEPT ![m] = HttpAfterGet(@, m, ok)]
          /\ Spend(ok)
    /\ UNCHANGED <<guild, cache, bot, roles, roles0, channel, asg, join, sw, pat, ver, hist, ready, second>>

\* Lines 68-69, after the put of the member role.
fetch_put(m) ==
    /\ http[m].pc = "put"
    /\ \E ok \in Outcomes :
          /\ http' = [http EXCEPT ![m] =
                        IF ok THEN Issue(At(@, "delete"), Call("remove", unverifiedRoleId, m))
                        ELSE HttpCatch(@)]
          /\ roles' = IF ok THEN AddRole(m, memberRoleId) ELSE roles
          /\ Spend(ok)
    /\ UNCHANGED <<guild, cache, bot, roles0, channel, asg, join, sw, pat, ver, hist, ready, second>>

\* Lines 69-72, after the delete of the unverified role.
fetch_delete(m) ==
    /\ http[m].pc = "delete"
    /\ \E ok \in Outcomes :
          /\ http' = [http EXCEPT ![m] = IF ok THEN At(@, "post") ELSE HttpCatch(@)]
          /\ roles' = IF ok THEN RemoveRole(m, unverifiedRoleId) ELSE roles
          /\ Spend(ok)
    /\ UNCHANGED <<guild, cache, bot, roles0, channel, asg, join, sw, pat, ver, hist, ready, second>>

\* Mutant: the outcome of the post is not looked at (the await of line 72
\* outside the try).
fetch_postUncaught(m) ==
    /\ http[m].pc = "post"
    /\ \E ok \in Outcomes :
          /\ http' = [http EXCEPT ![m] =
                        Respond(IF ok THEN Emit(@, Line("verified", m)) ELSE Fail(@), "success")]
          /\ Spend(ok)
    /\ UNCHANGED <<guild, cache, bot, roles, roles0, channel, asg, join, sw, pat, ver, hist, ready, second>>

\* Lines 72-82, after the post to the log channel.
fetch_post(m) ==
    /\ http[m].pc = "post"
    /\ \E ok \in Outcomes :
          /\ http' = [http EXCEPT ![m] =
                        IF ok THEN Respond(Emit(@, Line("verified", m)), "success")
                        ELSE HttpCatch(@)]
          /\ Spend(ok)
    /\ UNCHANGED <<guild, cache, bot, roles, roles0, channel, asg, join, sw, pat, ver, hist, ready, second>>

----------------------------------------------------------------------------
\* A direct caller of assignUnverifiedRole(member): it calls, waits for the
\* call to return, keeps what the call did, and calls again.

assignUnverifiedRole(m) ==
    /\ m \in cache
    /\ asg[<<DefaultReason, m>>].pc = "idle"
    /\ Len(hist) < MaxCalls
    /\ asg' = [asg EXCEPT ![<<DefaultReason, m>>] = AssignEntry(m)]
    /\ UNCHANGED <<guild, cache, bot, roles, roles0, channel, join, sw, pat, ver, http, hist, faults, ready, second>>

assignUnverifiedRole_returned(m) ==
    /\ asg[<<DefaultReason, m>>].pc = "done"
    /\ hist' = Append(hist, [calls |-> asg[<<DefaultReason, m>>].calls,
                             log |-> asg[<<DefaultReason, m>>].log,
                             failed |-> asg[<<DefaultReason, m>>].failed,
                             roles |-> roles[m]])
    /\ asg' = [asg EXCEPT ![<<DefaultReason, m>>] = IdleTask]
    /\ UNCHANGED <<guild, cache, bot, roles, roles0, channel, join, sw, pat, ver, http, faults, ready, second>>

----------------------------------------------------------------------------
\* The ClientReady handler and its two timers, lines 275-294.

\* second: a run of checkAndAssignUnverifiedRoles (sw, with asg, the calls
\* of assignUnverifiedRole it makes, by member) and a run of
\* checkPatreonMembers (pat) that a tick of setInterval started while the
\* run before it was still in progress.
SecondIdle ==
    [sw |-> IdleTask, pat |-> PatIdle, asg |-> [m \in Members |-> IdleTask]]

\* Lines 275-282: the client is ready and the first pending sweep is
\* called and awaited.
ClientReady ==
    /\ ready = "idle"
    /\ ready' = "rolecheck"
    /\ sw' = At(IdleTask, "guild")
    /\ UNCHANGED <<guild, cache, bot, roles, roles0, channel, asg, join, pat, ver, http, hist, second, faults>>

\* Line 283: checkAndAssignUnverifiedRoles has returned (the calls of
\* assignUnverifiedRole it made are not awaited) and the first entitlement
\* sweep is called and awaited.
ClientReady_rolecheck ==
    /\ ready = "rolecheck"
    /\ sw.pc = "done"
    /\ ready' = "patreoncheck"
    /\ pat' = At(PatIdle, "guild")
    /\ UNCHANGED <<guild, cache, bot, roles, roles0, channel, asg, join, sw, ver, http, hist, second, faults>>

\* Lines 286-288: checkPatreonMembers has returned and both timers are set.
ClientReady_patreoncheck ==
    /\ ready = "patreoncheck"
    /\ pat.pc = "done"
    /\ ready' = "armed"
    /\ UNCHANGED <<guild, cache, bot, roles, roles0, channel, asg, join, sw, pat, ver, http, hist, second, faults>>

\* A run of the pending sweep, with the calls it made, is in progress.
RoleCheckRunning ==
    Running(sw.pc) \/ \E m \in Members : Running(asg[<<SweepReason, m>>].pc)

RoleCheckRunningSecond ==
    Running(second.sw.pc) \/ \E m \in Members : Running(second.asg[m].pc)

\* Mutant: a tick that finds a run of the pending sweep in progress is
\* skipped.
RoleCheckTickSkips ==
    /\ ready = "armed"
    /\ ~RoleCheckRunning
    /\ sw' = At(IdleTask, "guild")
    /\ UNCHANGED <<guild, cache, bot, roles, roles0, channel, asg, join, pat, ver, http, hist, ready, second, faults>>

\* Mutant: a tick of the pending sweep waits for the entitlement sweep.
RoleCheckTickExclusive ==
    /\ ready = "armed"
    /\ ~Running(pat.pc)
    /\ IF ~RoleCheckRunning
       THEN sw' = At(IdleTask, "guild") /\ UNCHANGED second
       ELSE /\ ~RoleCheckRunningSecond
            /\ second' = [second EXCEPT !.sw = At(IdleTask, "guild")]
            /\ UNCHANGED sw
    /\ UNCHANGED <<guild, cache, bot, roles, roles0, channel, asg, join, pat, ver, http, hist, ready, faults>>

\* Line 286, a tick of setInterval(checkAndAssignUnverifiedRoles,
\* ROLE_CHECK_INTERVAL): a run starts, whatever else is running.  (Of the
\* runs in progress at a time the model keeps two.)
RoleCheckTick ==
    /\ ready = "armed"
    /\ IF ~RoleCheckRunning
       THEN sw' = At(IdleTask, "guild") /\ UNCHANGED second
       ELSE /\ ~RoleCheckRunningSecond
            /\ second' = [second EXCEPT !.sw = At(IdleTask, "guild")]
            /\ UNCHANGED sw
    /\ UNCHANGED <<guild, cache, bot, roles, roles0, channel, asg, join, pat, ver, http, hist, ready, faults>>

\* Line 287, a tick of setInterval(checkPatreonMembers,
\* PATREON_CHECK_INTERVAL).
PatreonCheckTick ==
    /\ ready = "armed"
    /\ IF ~Running(pat.pc)
       THEN pat' = At(PatIdle, "guild") /\ UNCHANGED second
       ELSE /\ ~Running(second.pat.pc)
            /\ second' = [second EXCEPT !.pat = At(PatIdle, "guild")]
            /\ UNCHANGED pat
    /\ UNCHANGED <<guild, cache, bot, roles, roles0, channel, asg, join, sw, ver, http, hist, ready, faults>>

\* The steps of the second run of checkAndAssignUnverifiedRoles (lines
\* 119-157) and of its calls of assignUnverifiedRole (lines 88-110).
checkAndAssignUnverifiedRoles_guild2 ==
    /\ second.sw.pc = "guild"
    /\ \E ok \in Outcomes :
          /\ second' = [second EXCEPT !.sw =
                            IF ~ok THEN Emit(Fail(At(@, "done")), Global("error"))
                            ELSE IF ~HasManageRoles THEN Emit(At(@, "done"), Global("denied"))
                            ELSE At(@, "role")]
          /\ Spend(ok)
    /\ UNCHANGED <<guild, cache, bot, roles, roles0, channel, asg, join, sw, pat, ver, http, hist, ready>>

checkAndAssignUnverifiedRoles_role2 ==
    /\ second.sw.pc = "role"
    /\ \E ok \in Outcomes :
          /\ second' = [second EXCEPT !.sw =
                            SweepAfterFetch(Result(@, ok), RoleFetch(unverifiedRoleId, ok))]
          /\ Spend(ok)
    /\ UNCHANGED <<guild, cache, bot, roles, roles0, channel, asg, join, sw, pat, ver, http, hist, ready>>

SweepCalls2 ==
    [m \in Members |->
        IF m \in cache /\ NeedsUnverified(m) THEN AssignEntry(m) ELSE second.asg[m]]

checkAndAssignUnverifiedRoles_members2 ==
    /\ second.sw.pc = "members"
    /\ \E ok \in Outcomes :
          /\ second' = [second EXCEPT
                            !.sw = IF ok THEN At(@, "done")
                                   ELSE Emit(Fail(At(@, "done")), Global("error")),
                            !.asg = IF ok THEN SweepCalls2 ELSE @]
          /\ Spend(ok)
    /\ UNCHANGED <<guild, cache, bot, roles, roles0, channel, asg, join, sw, pat, ver, http, hist, ready>>

assignUnverifiedRole_fetched2(m) ==
    /\ second.asg[m].pc = "fetch"
    /\ \E ok \in Outcomes :
          /\ second' = [second EXCEPT !.asg[m] =
                            AssignAfterFetch(Result(@, ok), m, RoleFetch(unverifiedRoleId, ok))]
          /\ Spend(ok)
    /\ UNCHANGED <<guild, cache, bot, roles, roles0, channel, asg, join, sw, pat, ver, http, hist, ready>>

assignUnverifiedRole_added2(m) ==
    /\ second.asg[m].pc = "add"
    /\ \E ok \in Outcomes :
          /\ second' = [second EXCEPT !.asg[m] = AssignAfterAdd(@, m, ok)]
          /\ roles' = IF ok THEN AddRole(m, unverifiedRoleId) ELSE roles
          /\ Spend(ok)
    /\ UNCHANGED <<guild, cache, bot, roles0, channel, asg, join, sw, pat, ver, http, hist, ready>>

\* The steps of the second run of checkPatreonMembers (lines 171-259).
checkPatreonMembers_guild2 ==
    /\ second.pat.pc = "guild"
    /\ \E ok \in Outcomes :
          /\ second' = [second EXCEPT !.pat =
                            IF ~ok THEN Emit(Fail(At(@, "done")), Global("error"))
                            ELSE IF ~HasManageRoles THEN Emit(At(@, "done"), Global("denied"))
                            ELSE At(@, "roles")]
          /\ Spend(ok)
    /\ UNCHANGED <<guild, cache, bot, roles, roles0, channel, asg, join, sw, pat, ver, http, hist, ready>>

checkPatreonMembers_roles2 ==
    /\ second.pat.pc = "roles"
    /\ \E okM, okU, okP \in Outcomes :
          /\ second' = [second EXCEPT !.pat =
                            PatAfterFetch(Result(@, okM /\ okU /\ okP),
                                          RoleFetch(memberRoleId, okM),
                                          RoleFetch(unverifiedRoleId, okU),
                                          IF okP THEN patreonRoleIds \cap DOMAIN guild.rolePos
                                          ELSE {})]
          /\ Spend(okM /\ okU /\ okP)
    /\ UNCHANGED <<guild, cache, bot, roles, roles0, channel, asg, join, sw, pat, ver, http, hist, ready>>

checkPatreonMembers_members2 ==
    /\ second.pat.pc = "members"
    /\ \E ok \in Outcomes :
          /\ second' = [second EXCEPT !.pat =
                            IF ~ok THEN Emit(Fail(At(@, "done")), Global("error"))
                            ELSE IF membersToUpdate(@.found) = {} THEN At(@, "done")
                            ELSE PatNext(Emit(@, Global("found")),
                                         InOrder(membersToUpdate(@.found)))]
          /\ Spend(ok)
    /\ UNCHANGED <<guild, cache, bot, roles, roles0, channel, asg, join, sw, pat, ver, http, hist, ready>>

checkPatreonMembers_added2 ==
    /\ second.pat.pc = "add"
    /\ \E ok \in Outcomes :
          /\ second' = [second EXCEPT !.pat = PatAfterAdd(@, Head(@.queue), ok)]
          /\ roles' = IF ok THEN AddRole(Head(second.pat.queue), memberRoleId) ELSE roles
          /\ Spend(ok)
    /\ UNCHANGED <<guild, cache, bot, roles0, channel, asg, join, sw, pat, ver, http, hist, ready>>

checkPatreonMembers_removed2 ==
    /\ second.pat.pc = "remove"
    /\ \E ok \in Outcomes :
          /\ second' = [second EXCEPT !.pat = PatAfterRemove(@, Head(@.queue), ok)]
          /\ roles' = IF ok THEN RemoveRole(Head(second.pat.queue), unverifiedRoleId) ELSE roles
          /\ Spend(ok)
    /\ UNCHANGED <<guild, cache, bot, roles0, channel, asg, join, sw, pat, ver, http, hist, ready>>

----------------------------------------------------------------------------
\* Specifications.

First == CHOOSE m \in Members : \A k \in Members : m <= k

\* Nothing has been started yet.
IdleRuns ==
    /\ asg = [k \in Reasons \X Members |-> IdleTask]
    /\ join = [m \in Members |-> "idle"]
    /\ sw = IdleTask
    /\ pat = PatIdle
    /\ ver = [m \in Members |-> VerIdle]
    /\ http = [m \in Members |-> HttpIdle]
    /\ hist = <<>>
    /\ second = SecondIdle

\* Nothing is running, and the ClientReady handler has set both timers.
IdleTasks ==
    /\ IdleRuns
    /\ ready = "armed"

\* One user: a member of the guild holding any roles that exist, or a user
\* that has not joined yet; a bot or not.  The welcome message of a member
\* that is no bot may still be in the channel.
InitOne(G, f) ==
    /\ guild \in G
    /\ cache \in {{}, {First}}
    /\ bot \in {[m \in Members |-> b /\ m = First] : b \in BOOLEAN}
    /\ roles \in {[m \in Members |-> IF m \in cache THEN rs ELSE {}] : rs \in RoleSets(guild)}
    /\ roles0 = roles
    /\ channel \in SUBSET {Welcome(m) : m \in {x \in cache : ~bot[x]}}
    /\ faults = f
    /\ IdleTasks

AllIdle ==
    /\ \A k \in DOMAIN asg : asg[k].pc = "idle"
    /\ \A m \in Members : join[m] = "idle" /\ ver[m].pc = "idle" /\ http[m].pc = "idle"
    /\ sw.pc = "idle" /\ pat.pc = "idle"

AllQuiet ==
    /\ \A k \in DOMAIN asg : ~Running(asg[k].pc)
    /\ \A m \in Members : ~Running(join[m]) /\ ~Running(ver[m].pc) /\ ~Running(http[m].pc)
    /\ ~Running(sw.pc) /\ ~Running(pat.pc)

\* Everything that was started has ended: what it did is forgotten (of the
\* channel, only the welcome messages are kept) and the next trigger is
\* observed from the roles as they are now.
Forget ==
    /\ AllQuiet
    /\ ~AllIdle
    /\ asg' = [k \in Reasons \X Members |-> IdleTask]
    /\ join' = [m \in Members |-> "idle"]
    /\ sw' = IdleTask
    /\ pat' = PatIdle
    /\ ver' = [m \in Members |-> VerIdle]
    /\ http' = [m \in Members |-> HttpIdle]
    /\ roles0' = roles
    /\ channel' = {msg \in channel : msg[2] = "welcome"}
    /\ UNCHANGED <<guild, cache, bot, roles, hist, faults, ready, second>>

\* The steps of the gateway bot's tasks: member m's handlers and the two
\* sweeps.
BotSteps(m) ==
    \/ \E r \in {JoinReason, SweepReason} : assignUnverifiedRole_fetched(r, m)
    \/ \E r \in {JoinReason, SweepReason} : assignUnverifiedRole_added(r, m)
    \/ GuildMemberAdd_welcome(m)
    \/ checkAndAssignUnverifiedRoles_guild
    \/ checkAndAssignUnverifiedRoles_role
    \/ checkAndAssignUnverifiedRoles_members
    \/ checkPatreonMembers_guild
    \/ checkPatreonMembers_roles
    \/ checkPatreonMembers_members
    \/ checkPatreonMembers_added
    \/ checkPatreonMembers_removed
    \/ MessageCreate_history(m)
    \/ MessageCreate_roles(m)
    \/ MessageCreate_notneeded(m)
    \/ MessageCreate_removed(m)
    \/ MessageCreate_added(m)
    \/ MessageCreate_confirm(m)
    \/ MessageCreate_delwelcome(m)
    \/ MessageCreate_refetch(m)
    \/ MessageCreate_delmsgs(m)
    \/ MessageCreate_timeout(m)

\* The steps of the HTTP worker's handler for member m.
WorkerSteps(m) ==
    \/ fetch_get(m)
    \/ fetch_put(m)
    \/ fetch_delete(m)
    \/ fetch_post(m)

\* Spec: one trigger at a time.  From any directory and any role set, a
\* join, a sweep, a ?verify message or a /verify interaction runs to its end
\* with no other trigger overlapping it; any adapter call may fail.
Init == InitOne(Guilds, Unlimited)

Next ==
    \/ AllIdle /\ GuildMemberAdd(First)
    \/ AllIdle /\ checkAndAssignUnverifiedRoles
    \/ AllIdle /\ checkPatreonMembers
    \/ AllIdle /\ MessageCreate(First)
    \/ AllIdle /\ fetch(First)
    \/ BotSteps(First)
    \/ WorkerSteps(First)
    \/ Forget

Spec == Init /\ [][Next]_vars

\* SpecPass: the triggers of one member overlap.  In a directory in which
\* every capability check passes and with no adapter failure, the join
\* handler, each sweep and a ?verify transaction run once each, their
\* steps interleaved in every order.
InitPass == InitOne({g \in Guilds : AllChecksPass(g)}, 0)

NextPass ==
    \/ GuildMemberAdd(First)
    \/ sw.pc = "idle" /\ checkAndAssignUnverifiedRoles
    \/ pat.pc = "idle" /\ checkPatreonMembers
    \/ MessageCreate(First)
    \/ BotSteps(First)

SpecPass == InitPass /\ [][NextPass]_vars

\* SpecTwice: assignUnverifiedRole is called for one member, each call
\* after the previous one has returned and with nothing else running, from
\* any directory and any role set; any adapter call may fail.
InitTwice == InitOne(Guilds, Unlimited) /\ cache = {First}

NextTwice ==
    \/ assignUnverifiedRole(First)
    \/ assignUnverifiedRole_fetched(DefaultReason, First)
    \/ assignUnverifiedRole_added(DefaultReason, First)
    \/ assignUnverifiedRole_returned(First)

SpecTwice == InitTwice /\ [][NextTwice]_vars

\* SpecSweep: the two sweeps run once each over all the members, none of
\* them a bot, each at baseline or holding the unverified role, an
\* entitlement role or both; every capability check passes and at most
\* MaxFailures adapter calls fail.
SweepRoleSets ==
    {rs \in RoleSets(guild) : rs \subseteq {unverifiedRoleId, "patreonA"}}

InitSweep ==
    /\ guild \in {g \in Guilds : AllChecksPass(g)}
    /\ cache = Members
    /\ bot = [m \in Members |-> FALSE]
    /\ roles \in [Members -> SweepRoleSets]
    /\ roles0 = roles
    /\ channel = {}
    /\ faults = MaxFailures
    /\ IdleTasks

NextSweep ==
    \/ sw.pc = "idle" /\ checkAndAssignUnverifiedRoles
    \/ pat.pc = "idle" /\ checkPatreonMembers
    \/ checkAndAssignUnverifiedRoles_guild
    \/ checkAndAssignUnverifiedRoles_role
    \/ checkAndAssignUnverifiedRoles_members
    \/ \E m \in Members : assignUnverifiedRole_fetched(SweepReason, m)
    \/ \E m \in Members : assignUnverifiedRole_added(SweepReason, m)
    \/ checkPatreonMembers_guild
    \/ checkPatreonMembers_roles
    \/ checkPatreonMembers_members
    \/ checkPatreonMembers_added
    \/ checkPatreonMembers_removed

SpecSweep == InitSweep /\ [][NextSweep]_vars

\* SpecLive: the pending sweep fires again and again (setInterval, line
\* 289) while a user may join; every capability check passes, at most
\* MaxFailures adapter calls fail, and every started task goes on.
InitLive == InitOne({g \in Guilds : AllChecksPass(g)}, MaxFailures)

SweepSteps(m) ==
    \/ checkAndAssignUnverifiedRoles
    \/ checkAndAssignUnverifiedRoles_guild
    \/ checkAndAssignUnverifiedRoles_role
    \/ checkAndAssignUnverifiedRoles_members
    \/ assignUnverifiedRole_fetched(SweepReason, m)
    \/ assignUnverifiedRole_added(SweepReason, m)

JoinSteps(m) ==
    \/ assignUnverifiedRole_fetched(JoinReason, m)
    \/ assignUnverifiedRole_added(JoinReason, m)
    \/ GuildMemberAdd_welcome(m)

NextLive ==
    \/ GuildMemberAdd(First)
    \/ JoinSteps(First)
    \/ SweepSteps(First)

SpecLive ==
    /\ InitLive
    /\ [][NextLive]_vars
    /\ WF_vars(JoinSteps(First))
    /\ WF_vars(SweepSteps(First))

\* An administrator moves the unverified or the member role to another
\* position (role.position is read at lines 96, 139, 211, 216, 426, 431).
AdminChange ==
    /\ \E id \in {unverifiedRoleId, memberRoleId} \cap DOMAIN guild.rolePos, pos \in 1..MaxPos :
          /\ pos # guild.rolePos[id]
          /\ guild' = [guild EXCEPT !.rolePos[id] = pos]
    /\ UNCHANGED <<cache, bot, roles, roles0, channel, asg, join, sw, pat, ver, http, hist, faults, ready, second>>

\* SpecAdmin: one trigger of the gateway bot at a time, with no adapter
\* failure, in a directory where the bot may manage roles and the
\* unverified and member roles exist; an administrator may change their
\* ranks at any moment.
InitAdmin ==
    InitOne({g \in Guilds : /\ g.manageRoles
                            /\ {unverifiedRoleId, memberRoleId} \subseteq DOMAIN g.rolePos}, 0)

NextAdmin ==
    \/ AllIdle /\ GuildMemberAdd(First)
    \/ AllIdle /\ checkAndAssignUnverifiedRoles
    \/ AllIdle /\ checkPatreonMembers
    \/ AllIdle /\ MessageCreate(First)
    \/ BotSteps(First)
    \/ Forget
    \/ AdminChange

SpecAdmin == InitAdmin /\ [][NextAdmin]_vars

\* SpecHeal: the two sweeps fire again and again and one member, no bot,
\* may post ?verify once, one trigger at a time; every capability check
\* passes, at most MaxHealFailures adapter calls fail, every started task
\* goes on and each sweep's timer keeps firing.
InitHeal ==
    /\ InitOne({g \in Guilds : AllChecksPass(g)}, MaxHealFailures)
    /\ cache = {First}
    /\ ~bot[First]

PendingSteps(m) ==
    \/ checkAndAssignUnverifiedRoles_guild
    \/ checkAndAssignUnverifiedRoles_role
    \/ checkAndAssignUnverifiedRoles_members
    \/ assignUnverifiedRole_fetched(SweepReason, m)
    \/ assignUnverifiedRole_added(SweepReason, m)

PatSteps ==
    \/ checkPatreonMembers_guild
    \/ checkPatreonMembers_roles
    \/ checkPatreonMembers_members
    \/ checkPatreonMembers_added
    \/ checkPatreonMembers_removed

VerifySteps(m) ==
    \/ MessageCreate_history(m)
    \/ MessageCreate_roles(m)
    \/ MessageCreate_notneeded(m)
    \/ MessageCreate_removed(m)
    \/ MessageCreate_added(m)
    \/ MessageCreate_confirm(m)
    \/ MessageCreate_delwelcome(m)
    \/ MessageCreate_refetch(m)
    \/ MessageCreate_delmsgs(m)
    \/ MessageCreate_timeout(m)

PendingTimer == AllQuiet /\ checkAndAssignUnverifiedRoles
PatTimer == AllQuiet /\ checkPatreonMembers

NextHeal ==
    \/ AllQuiet /\ MessageCreate(First)
    \/ PendingTimer
    \/ PatTimer
    \/ VerifySteps(First)
    \/ PendingSteps(First)
    \/ PatSteps

SpecHeal ==
    /\ InitHeal
    /\ [][NextHeal]_vars
    /\ WF_vars(VerifySteps(First))
    /\ WF_vars(PendingSteps(First))
    /\ WF_vars(PatSteps)
    /\ SF_vars(PendingTimer)
    /\ SF_vars(PatTimer)

\* SpecGuard: a user posts any message, in or outside the guild and the
\* verification channel, and the MessageCreate handler runs on it; every
\* capability check passes, no adapter call fails, and the user holds no
\* role, the unverified role or the member role.
InitGuard ==
    /\ InitOne({g \in Guilds : AllChecksPass(g)}, 0)
    /\ \A m \in Members : roles[m] \in {{}, {unverifiedRoleId}, {memberRoleId}}

NextGuard ==
    \/ AllIdle /\ \E msg \in Messages : MessageCreate_message(First, msg)
    \/ VerifySteps(First)
    \/ Forget

SpecGuard == InitGuard /\ [][NextGuard]_vars

\* SpecReady: the client becomes ready, the handler runs both sweeps once
\* and sets the timers, and then each timer ticks again and again, also
\* while a run of its sweep is in progress.  One member, no bot, at
\* baseline or holding the unverified role and an entitlement role; every
\* role exists below the bot's highest role and at most MaxHealFailures
\* adapter calls fail.
InitReady ==
    /\ guild \in {g \in Guilds : /\ AllChecksPass(g)
                                 /\ patreonRoleIds \subseteq DOMAIN g.rolePos
                                 /\ \A id \in DOMAIN g.rolePos : g.rolePos[id] = 1}
    /\ cache = {First}
    /\ bot = [m \in Members |-> FALSE]
    /\ roles \in {[m \in Members |-> IF m = First THEN rs ELSE {}] :
                     rs \in {{}, {unverifiedRoleId, "patreonA"}}}
    /\ roles0 = roles
    /\ channel = {}
    /\ faults = MaxHealFailures
    /\ IdleRuns
    /\ ready = "idle"

SecondSteps(m) ==
    \/ checkAndAssignUnverifiedRoles_guild2
    \/ checkAndAssignUnverifiedRoles_role2
    \/ checkAndAssignUnverifiedRoles_members2
    \/ assignUnverifiedRole_fetched2(m)
    \/ assignUnverifiedRole_added2(m)
    \/ checkPatreonMembers_guild2
    \/ checkPatreonMembers_roles2
    \/ checkPatreonMembers_members2
    \/ checkPatreonMembers_added2
    \/ checkPatreonMembers_removed2

NextReady ==
    \/ ClientReady
    \/ ClientReady_rolecheck
    \/ ClientReady_patreoncheck
    \/ RoleCheckTick
    \/ PatreonCheckTick
    \/ PendingSteps(First)
    \/ PatSteps
    \/ SecondSteps(First)

SpecReady == InitReady /\ [][NextReady]_vars

\* SpecOverlap: both timers are set and tick again and again, also while
\* a run of the same sweep is in progress; one member, holding any roles;
\* every capability check passes and no adapter call fails.
InitOverlap ==
    /\ InitOne({g \in Guilds : AllChecksPass(g)}, 0)
    /\ cache = {First}
    /\ channel = {}

NextOverlap ==
    \/ RoleCheckTick
    \/ PatreonCheckTick
    \/ PendingSteps(First)
    \/ PatSteps
    \/ SecondSteps(First)

SpecOverlap == InitOverlap /\ [][NextOverlap]_vars

\* SpecVerify: one user posts ?verify once, in any directory, and the
\* handler goes on step by step; any adapter call may fail, and every call
\* returns.
InitVerify == InitOne(Guilds, Unlimited)

NextVerify ==
    \/ MessageCreate(First)
    \/ VerifySteps(First)

SpecVerify ==
    /\ InitVerify
    /\ [][NextVerify]_vars
    /\ WF_vars(VerifySteps(First))

----------------------------------------------------------------------------
\* Properties.

\* The handler of member m's ?verify message has returned (a timer may
\* still be waiting to delete the reply).
VerEnded(m) == ver[m].pc \in {"timer", "done"}

\* The /verify interaction of member m was answered as a verify command.
HttpEnded(m) ==
    http[m].pc = "done" /\ http[m].response \in {"success", "not needed", "failed"}

\* The bot may manage roles, and the unverified and member roles exist
\* below its highest role.
SwapPossible ==
    /\ guild.manageRoles
    /\ {unverifiedRoleId, memberRoleId} \subseteq DOMAIN guild.rolePos
    /\ guild.rolePos[unverifiedRoleId] < guild.botPos
    /\ guild.rolePos[memberRoleId] < guild.botPos

\* C1 (verify success path).  A member that held the unverified role when
\* it posted the verify keyword, in a directory where the bot may manage
\* roles and both roles exist below its highest role, with no adapter call
\* failing: when the transaction has ended the member does not hold
\* unverified, holds member, and exactly one reply, the confirmation, was
\* sent.  The same for the /verify interaction, which answers success.
C1_VerifySuccess ==
    \A m \in Members :
        /\ (/\ VerEnded(m)
            /\ ~ver[m].failed
            /\ unverifiedRoleId \in roles0[m]
            /\ SwapPossible)
           => /\ unverifiedRoleId \notin roles[m]
              /\ memberRoleId \in roles[m]
              /\ ver[m].replies = <<"success">>
        /\ (/\ HttpEnded(m)
            /\ ~http[m].failed
            /\ unverifiedRoleId \in roles0[m]
            /\ SwapPossible)
           => /\ unverifiedRoleId \notin roles[m]
              /\ memberRoleId \in roles[m]
              /\ http[m].response = "success"

\* C1's case: a ?verify transaction has swapped the roles and replied.
C1_Witness ==
    \E m \in Members :
        /\ ver[m].pc = "done"
        /\ ~ver[m].failed
        /\ unverifiedRoleId \in roles0[m]
        /\ ver[m].calls = {Call("remove", unverifiedRoleId, m), Call("add", memberRoleId, m)}
        /\ ver[m].replies = <<"success">>
        /\ memberRoleId \in roles[m]

\* C2 (verify skip path), as claimed: a member that did not hold the
\* unverified role when it posted the verify keyword gets the "not needed"
\* reply and no role mutation is issued, whatever the ranks are.  Stated
\* for the directories in which the bot may manage roles and both roles
\* exist, for a member of the cache and with no adapter failure, so that
\* only the ranks vary.
C2_SkipWhateverRanks ==
    \A m \in Members :
        (/\ VerEnded(m)
         /\ ~ver[m].failed
         /\ m \in cache
         /\ unverifiedRoleId \notin roles0[m]
         /\ guild.manageRoles
         /\ {unverifiedRoleId, memberRoleId} \subseteq DOMAIN guild.rolePos)
        => /\ ver[m].replies = <<"not needed">>
           /\ ver[m].calls = {}

\* The unverified role exists at or above the bot's highest role.
UnverifiedTooHigh ==
    /\ unverifiedRoleId \in DOMAIN guild.rolePos
    /\ guild.rolePos[unverifiedRoleId] >= guild.botPos

\* C5 (hierarchy gate for the pending role).  While the unverified role
\* sits at or above the bot's highest role, no run of assignUnverifiedRole
\* issues an add-role call and the sweep starts no run for any member; a
\* run or a sweep that got as far as the rank check (the bot may manage
\* roles, the member is no bot, no fetch failed) has logged the hierarchy
\* line when it ends.
C5_HierarchyGate ==
    UnverifiedTooHigh =>
        /\ \A k \in DOMAIN asg :
              /\ asg[k].calls = {}
              /\ (asg[k].pc = "done" /\ ~asg[k].failed /\ guild.manageRoles /\ ~bot[k[2]])
                 => Line("hierarchy", k[2]) \in asg[k].log
        /\ \A m \in Members : asg[<<SweepReason, m>>].pc = "idle"
        /\ sw.calls = {}
        /\ (sw.pc = "done" /\ ~sw.failed /\ guild.manageRoles)
           => Global("hierarchy") \in sw.log

\* C5's case, for a single member: the join handler's run ended at the
\* rank check of a role placed exactly at the bot's highest role.
C5_Witness ==
    \E m \in Members :
        /\ unverifiedRoleId \in DOMAIN guild.rolePos
        /\ guild.rolePos[unverifiedRoleId] = guild.botPos
        /\ asg[<<JoinReason, m>>].pc = "done"
        /\ Line("hierarchy", m) \in asg[<<JoinReason, m>>].log
        /\ roles[m] = {}

\* The entitlement sweep's capability checks pass in this directory.
PatChecksPass ==
    /\ guild.manageRoles
    /\ memberRoleId \in DOMAIN guild.rolePos
    /\ guild.rolePos[memberRoleId] < guild.botPos
    /\ unverifiedRoleId \in DOMAIN guild.rolePos => guild.rolePos[unverifiedRoleId] < guild.botPos

\* An entitlement sweep has completed without a failed adapter call, and m
\* is a non-bot member holding an entitlement role.
PatCompletedFor(m) ==
    /\ pat.pc = "done"
    /\ ~pat.failed
    /\ PatChecksPass
    /\ m \in cache
    /\ ~bot[m]
    /\ roles[m] \cap patreonRoleIds # {}

\* C7 (I2 after an entitlement sweep), as claimed: after a completed sweep
\* every non-bot holder of an entitlement role holds member and does not
\* hold unverified, whatever roles the member had when the sweep started.
C7_AnyRoleSet ==
    \A m \in Members :
        PatCompletedFor(m)
        => memberRoleId \in roles[m] /\ unverifiedRoleId \notin roles[m]

\* Both sweeps have run to completion, and nothing else is still running.
PassDone ==
    /\ AllQuiet
    /\ sw.pc = "done"
    /\ pat.pc = "done"

BothTiers(rs) == unverifiedRoleId \in rs /\ memberRoleId \in rs
OneTier(rs) == (unverifiedRoleId \in rs) # (memberRoleId \in rs)

\* C3 (priority of entitlement over pending).  A non-bot member that held
\* an entitlement role and not the member role, with or without the
\* unverified role, holds member and not unverified once one pending sweep
\* and one entitlement sweep have both completed, in whatever order their
\* steps ran (no join and no ?verify of that member in between).
C3_EntitlementPriority ==
    \A m \in Members :
        (/\ PassDone
         /\ join[m] = "idle"
         /\ ver[m].pc = "idle"
         /\ m \in cache
         /\ ~bot[m]
         /\ roles0[m] \cap patreonRoleIds # {}
         /\ memberRoleId \notin roles0[m])
        => memberRoleId \in roles[m] /\ unverifiedRoleId \notin roles[m]

\* C3's case: the combined pass has ended for a member that held an
\* entitlement role together with the unverified role.
C3_Witness ==
    \E m \in Members :
        /\ PassDone
        /\ join[m] = "idle"
        /\ ver[m].pc = "idle"
        /\ ~bot[m]
        /\ roles0[m] \cap patreonRoleIds # {}
        /\ unverifiedRoleId \in roles0[m]
        /\ memberRoleId \notin roles0[m]
        /\ Call("remove", unverifiedRoleId, m) \in pat.calls
        /\ roles[m] = (roles0[m] \ {unverifiedRoleId}) \cup {memberRoleId}

\* C9 (exactly one tier), as claimed, for the members that started with an
\* entitlement role: once the join handler, both sweeps and any ?verify
\* transaction have run to completion, the member holds exactly one of
\* unverified and member.
C9_ExactlyOneTier ==
    \A m \in Members :
        (/\ PassDone
         /\ m \in cache
         /\ ~bot[m]
         /\ roles0[m] \cap patreonRoleIds # {})
        => OneTier(roles[m])

\* C10 (race tolerance), as claimed: a member that did not start with both
\* unverified and member does not hold both once the overlapping join
\* handler, sweeps and ?verify transaction have all completed.
C10_NeverBothTiers ==
    \A m \in Members :
        (/\ PassDone
         /\ m \in cache
         /\ ~bot[m]
         /\ ~BothTiers(roles0[m]))
        => ~BothTiers(roles[m])

\* The add-role calls a completed direct call issued.
Adds(h) == {c \in h.calls : c[1] = "add"}

\* Neither of the consecutive direct calls i and i + 1 had a failed
\* adapter call.
CleanPair(i) ==
    /\ i + 1 <= Len(hist)
    /\ ~hist[i].failed
    /\ ~hist[i + 1].failed

Outcome(log, m) == Line("assigned", m) \in log \/ Line("error", m) \in log

\* C6 (sweep isolation), as claimed for the moment a sweep reports
\* completion: an outcome has then been logged for every member the sweep
\* called assignUnverifiedRole for (pending sweep) or put in
\* membersToUpdate (entitlement sweep).
C6_OutcomesAtCompletion ==
    /\ sw.pc = "done" =>
          \A m \in Members :
              asg[<<SweepReason, m>>].pc # "idle" => Outcome(asg[<<SweepReason, m>>].log, m)
    /\ (pat.pc = "done" /\ Global("found") \in pat.log) =>
          \A m \in Members :
              (roles0[m] \cap pat.found # {} /\ memberRoleId \notin roles0[m])
              => Outcome(pat.log, m)

\* A non-bot member of the guild holds no role but @everyone.
Baseline(m) == m \in cache /\ ~bot[m] /\ roles[m] = {}

\* C8 (I1 as liveness).  While pending sweeps keep firing, the capability
\* checks pass and adapter calls fail only finitely often, a non-bot member
\* at baseline eventually holds the unverified role.
C8_BaselineLeadsToUnverified ==
    \A m \in Members : Baseline(m) ~> (unverifiedRoleId \in roles[m])

\* C8's case: the join handler's add failed and left the member at
\* baseline; a later sweep has assigned the role.
C8_Witness ==
    \E m \in Members :
        /\ asg[<<JoinReason, m>>].failed
        /\ Line("error", m) \in asg[<<JoinReason, m>>].log
        /\ Line("assigned", m) \in asg[<<SweepReason, m>>].log
        /\ roles[m] = {unverifiedRoleId}

\* The role exists below the bot's highest role.
Manageable(id) ==
    /\ id \in DOMAIN guild.rolePos
    /\ guild.rolePos[id] < guild.botPos

\* The role mutation calls issued so far by the tasks of the gateway bot.
BotCalls(a, s, p, v) ==
    UNION {a[k].calls : k \in DOMAIN a} \cup s.calls \cup p.calls
        \cup UNION {v[m].calls : m \in DOMAIN v}

\* C11 (I4 with no caching), as claimed: every step that issues a role
\* add or remove issues it in a state where the role exists strictly below
\* the bot's highest role, also when an administrator has changed the
\* ranks since the operation started.
C11_CheckedAtEveryMutation ==
    [][\A c \in BotCalls(asg', sw', pat', ver') \ BotCalls(asg, sw, pat, ver) :
           Manageable(c[2])]_vars

\* C12 (bots are excluded from all policy).  For a user whose is-bot flag
\* is set, no task of the gateway bot (join handler, sweeps, ?verify
\* handler) has issued a role add or remove, the roles are as they were,
\* and neither a welcome message nor a reply has been sent.
C12_BotsExcluded ==
    \A m \in Members :
        bot[m] =>
            /\ \A c \in BotCalls(asg, sw, pat, ver) : c[3] # m
            /\ roles[m] = roles0[m]
            /\ Welcome(m) \notin channel
            /\ Reply(m) \notin channel
            /\ ver[m].replies = <<>>

\* C12's case: an entitlement sweep has completed over a bot that holds an
\* entitlement role and not the member role.
C12_Witness ==
    \E m \in Members :
        /\ bot[m]
        /\ m \in cache
        /\ roles[m] \cap patreonRoleIds # {}
        /\ memberRoleId \notin roles[m]
        /\ PatChecksPass
        /\ pat.pc = "done"
        /\ ~pat.failed
        /\ pat.found # {}

\* The texts the handler replies with.
ReplyTexts ==
    {"success", "not needed", "no permissions", "roles missing", "hierarchy", "unexpected error"}

\* C13 (a reply on every path), as claimed: when the transaction of a
\* message that passed the entry guard has ended and no reply call has
\* failed, the member has been sent a reply, and every reply sent is one
\* of the fixed texts.
C13_AlwaysReplied ==
    \A m \in Members :
        (VerEnded(m) /\ Global("reply error") \notin ver[m].log)
        => /\ ver[m].replies # <<>>
           /\ \A i \in DOMAIN ver[m].replies : ver[m].replies[i] \in ReplyTexts

\* The text was replied in member m's ?verify transaction.
WasReplied(m, text) == \E i \in DOMAIN ver[m].replies : ver[m].replies[i] = text

\* The two mutations of the role swap of member m.
Swap(m) == {Call("remove", unverifiedRoleId, m), Call("add", memberRoleId, m)}

\* C14 (no success reply for a partial swap).  The confirmation has been
\* replied only if both mutations were issued and succeeded: the member
\* then holds member and not unverified, and the top-level catch, where a
\* failed mutation ends, was not entered.  The same for the success
\* response of the /verify interaction.
C14_SuccessOnlyAfterSwap ==
    \A m \in Members :
        /\ WasReplied(m, "success")
           => /\ ver[m].calls = Swap(m)
              /\ unverifiedRoleId \notin roles[m]
              /\ memberRoleId \in roles[m]
              /\ Line("top-level error", m) \notin ver[m].log
        /\ Line("top-level error", m) \in ver[m].log => ~WasReplied(m, "success")
        /\ http[m].response = "success"
           => /\ http[m].calls = Swap(m)
              /\ unverifiedRoleId \notin roles[m]
              /\ memberRoleId \in roles[m]
              /\ ~http[m].failed

\* C14's case: the remove succeeded, the add failed, and the transaction
\* ended with the failure text as its only reply.
C14_Witness ==
    \E m \in Members :
        /\ ver[m].pc = "done"
        /\ ver[m].calls = Swap(m)
        /\ unverifiedRoleId \in roles0[m]
        /\ unverifiedRoleId \notin roles[m]
        /\ memberRoleId \notin roles[m]
        /\ ver[m].replies = <<"unexpected error">>

\* C15 (self-healing after a failed mutation), as claimed: a member that
\* started in a policy-correct tier (exactly one of unverified and member)
\* is, after finitely many failed adapter calls, brought back by the
\* sweeps to a policy-correct tier, and stays there.
C15_SelfHealing ==
    \A m \in Members :
        (m \in cache /\ ~bot[m] /\ OneTier(roles0[m])) => <>[]OneTier(roles[m])

\* The capability check of the entitlement sweep passes for role id: the
\* role exists and its rank is strictly below the bot's highest rank.
CheckPasses(id) ==
    /\ id \in DOMAIN guild.rolePos
    /\ guild.rolePos[id] < guild.botPos

\* C16 (entitlement precondition is all-or-nothing), as claimed: while the
\* capability check fails for the member role or for the unverified role
\* (the role is absent, or its rank is not strictly below the bot's highest
\* rank), the entitlement sweep issues no role mutation for any member.
C16_PreconditionAllOrNothing ==
    ~(CheckPasses(memberRoleId) /\ CheckPasses(unverifiedRoleId)) => pat.calls = {}

\* C17 (add before remove in the entitlement reconciliation).  While the
\* entitlement sweep waits for a remove of the unverified role, the member
\* it updates already holds the member role; a remove is issued only for a
\* member whose add was issued and has taken effect; and a member that held
\* the unverified role when the sweep began holds at least one of the
\* unverified and member roles in every state of the sweep.
C17_AddBeforeRemove ==
    /\ pat.pc = "remove" => memberRoleId \in roles[Head(pat.queue)]
    /\ \A m \in Members :
          Call("remove", unverifiedRoleId, m) \in pat.calls
              => /\ Call("add", memberRoleId, m) \in pat.calls
                 /\ memberRoleId \in roles[m]
    /\ \A m \in Members :
          (pat.pc # "idle" /\ unverifiedRoleId \in roles0[m])
              => (unverifiedRoleId \in roles[m] \/ memberRoleId \in roles[m])

\* The sweep has added the member role to a member that held the unverified
\* role and is waiting for the remove of the unverified role.
C17_Witness ==
    /\ pat.pc = "remove"
    /\ unverifiedRoleId \in roles0[Head(pat.queue)]
    /\ memberRoleId \notin roles0[Head(pat.queue)]
    /\ {unverifiedRoleId, memberRoleId} \subseteq roles[Head(pat.queue)]

\* C18 (cleanup needs the delete-messages capability), as claimed: a
\* verify transaction of a member that found the bot without the Manage
\* Messages permission in the channel deletes no message at all, the
\* bot's own reply after the delay included, while a transaction without a
\* failed call still carries out the role swap and the confirmation.
C18_NoDeletionWithoutCapability ==
    \A m \in Members :
        (/\ m \in cache
         /\ ver[m].pc \notin {"idle", "ignored"}
         /\ ~ver[m].canManageMessages)
            => /\ ver[m].dels = <<>>
               /\ (/\ VerEnded(m)
                   /\ ~ver[m].failed
                   /\ SwapPossible
                   /\ unverifiedRoleId \in roles0[m])
                      => (ver[m].calls = Swap(m) /\ WasReplied(m, "success"))

\* The spellings of the verify keyword, and a content that is the keyword
\* in one of them with nothing but blanks around it.
KeywordForms == {"?verify", "?VERIFY", "?Verify"}

IsVerifyCommand(content) ==
    \E i \in DOMAIN content :
        /\ content[i] \in KeywordForms
        /\ \A j \in DOMAIN content \ {i} : content[j] = Blank

\* The message is from a bot, or outside the guild, or outside the
\* verification channel, or its content is not the keyword.
ShouldIgnore(m, msg) ==
    bot[m] \/ ~msg.inGuild \/ ~msg.inChannel \/ ~IsVerifyCommand(msg.content)

\* C19 (the entry guard has no side effect).  A step in which the handler
\* takes a message that is from a bot, or outside the guild, or outside the
\* verification channel, or whose content after trimming and case-folding
\* is not the verify keyword, issues no role mutation, no reply, no
\* deletion and no log line and changes neither the directory nor the
\* channel; and nothing of the handler follows such a step.
C19_GuardHasNoSideEffect ==
    [][\A m \in Members :
          /\ (ver[m].pc = "idle" /\ ver'[m].pc # "idle" /\ ShouldIgnore(m, ver'[m].msg))
                => /\ ver'[m].pc = "ignored"
                   /\ ver'[m].calls = {} /\ ver'[m].log = {}
                   /\ ver'[m].replies = <<>> /\ ver'[m].dels = <<>>
                   /\ UNCHANGED <<guild, cache, bot, roles, channel, asg, join, sw, pat, http>>
          /\ ver[m].pc = "ignored" => ver'[m] \in {ver[m], VerIdle}]_vars

\* The handler has ignored a message of a member, no bot, posted in the
\* verification channel, that holds the keyword and something else.
C19_Witness ==
    \E m \in Members :
        /\ ver[m].pc = "ignored"
        /\ ~bot[m] /\ ver[m].msg.inGuild /\ ver[m].msg.inChannel
        /\ \E i \in DOMAIN ver[m].msg.content : ver[m].msg.content[i] \in KeywordForms

\* The swap of member m succeeded, the bot may delete messages, and at the
\* end of the transaction a message that the cleanup was to delete is still
\* in the channel: the welcome message that was found, or the command.
CleanupFailed(m) ==
    /\ m \in cache
    /\ VerEnded(m)
    /\ Line("verified", m) \in ver[m].log
    /\ ver[m].canManageMessages
    /\ \/ ver[m].welcomeFound /\ Welcome(m) \in channel
       \/ Command(m) \in channel

\* C20 (a partial cleanup failure does not undo the verification), as
\* claimed: when the swap succeeded and a later cleanup step failed, the
\* member holds member and not unverified at the end, no further role
\* mutation was issued, the failure is a line of the log (logEvent, lines
\* 510-514; a warning on the console alone is no such line), and the
\* confirmation was sent unless the reply itself failed.
C20_CleanupFailureKeepsVerification ==
    \A m \in Members :
        CleanupFailed(m)
            => /\ memberRoleId \in roles[m]
               /\ unverifiedRoleId \notin roles[m]
               /\ ver[m].calls = Swap(m)
               /\ Line("cleanup error", m) \in ver[m].log
               /\ Global("reply error") \notin ver[m].log => WasReplied(m, "success")

\* C21 (capability denied).  While the bot does not hold Manage Roles, no
\* operation issues a role add or remove: assignUnverifiedRole, the
\* pending sweep, the entitlement sweep and the verify transaction each
\* stop at their check, which is made once, and an operation that reached
\* its check has logged the denial.
C21_CapabilityDenied ==
    ~guild.manageRoles =>
        /\ \A k \in DOMAIN asg :
              /\ asg[k].calls = {}
              /\ asg[k].pc \in {"idle", "done"}
              /\ (asg[k].pc = "done" /\ ~bot[k[2]]) => asg[k].log = {Line("denied", k[2])}
        /\ sw.pc \in {"idle", "guild", "done"}
        /\ (sw.pc = "done" /\ ~sw.failed) => sw.log = {Global("denied")}
        /\ pat.calls = {}
        /\ pat.pc \in {"idle", "guild", "done"}
        /\ (pat.pc = "done" /\ ~pat.failed) => pat.log = {Global("denied")}
        /\ \A m \in Members :
              /\ ver[m].calls = {}
              /\ ver[m].pc \in {"idle", "ignored", "done"}
              /\ (ver[m].pc = "done" /\ m \in cache) => Line("denied", m) \in ver[m].log

\* Without Manage Roles, a ?verify of a member has ended at the check with
\* the denial logged and replied.
C21_Witness ==
    /\ ~guild.manageRoles
    /\ \E m \in Members :
          /\ m \in cache
          /\ ver[m].pc = "done"
          /\ Line("denied", m) \in ver[m].log
          /\ WasReplied(m, "no permissions")

\* Role id is absent from the directory.
Absent(id) == id \notin DOMAIN guild.rolePos

\* C22 (entity not found), as claimed: with Manage Roles held, an operation
\* that uses a role absent from the directory (unverified for the pending
\* reconciliation and its sweep; member or unverified for the entitlement
\* sweep and the verify transaction) issues no role mutation, and once it
\* has ended without a failed call it has logged a not-found line.
C22_EntityNotFound ==
    guild.manageRoles =>
        /\ Absent(unverifiedRoleId) =>
              /\ \A k \in DOMAIN asg :
                    /\ asg[k].calls = {}
                    /\ (asg[k].pc = "done" /\ ~bot[k[2]])
                          => Line("notfound", k[2]) \in asg[k].log
              /\ (sw.pc = "done" /\ ~sw.failed) => Global("notfound") \in sw.log
        /\ (Absent(unverifiedRoleId) \/ Absent(memberRoleId)) =>
              /\ pat.calls = {}
              /\ (pat.pc = "done" /\ ~pat.failed) => Global("notfound") \in pat.log
              /\ \A m \in Members :
                    /\ ver[m].calls = {}
                    /\ (ver[m].pc = "done" /\ m \in cache /\ ~bot[m])
                          => Line("notfound", m) \in ver[m].log

\* A run of the pending sweep, or of the entitlement sweep, starts in
\* this step.
RoleCheckStarts ==
    \/ sw'.pc = "guild" /\ sw.pc # "guild"
    \/ second'.sw.pc = "guild" /\ second.sw.pc # "guild"

PatreonCheckStarts ==
    \/ pat'.pc = "guild" /\ pat.pc # "guild"
    \/ second'.pat.pc = "guild" /\ second.pat.pc # "guild"

\* C23 (startup and periodic sweeps).  Before the timers are set the only
\* runs are the two the ClientReady handler makes, the pending sweep first
\* and the entitlement sweep when it has returned; the timers are set when
\* both have returned; and from then on a tick of either timer can start a
\* run whether or not the other sweep is running (as long as the model
\* has room for one more run of that sweep).
C23_StartupThenTicks ==
    /\ [][/\ RoleCheckStarts =>
                \/ ready = "idle" /\ ready' = "rolecheck" /\ second' = second
                \/ ready = "armed"
          /\ PatreonCheckStarts =>
                \/ ready = "rolecheck" /\ ready' = "patreoncheck" /\ second' = second
                \/ ready = "armed"
          /\ (ready # "armed" /\ ready' = "armed") => (sw.pc = "done" /\ pat.pc = "done")]_vars
    /\ [](ready = "idle" => (sw.pc = "idle" /\ pat.pc = "idle"))
    /\ [](ready = "rolecheck" => pat.pc = "idle")
    /\ [](ready = "armed" => (sw.pc # "idle" /\ pat.pc # "idle"))
    /\ []((ready = "armed" /\ ~(RoleCheckRunning /\ RoleCheckRunningSecond))
              => ENABLED RoleCheckTick)
    /\ []((ready = "armed" /\ ~(Running(pat.pc) /\ Running(second.pat.pc)))
              => ENABLED PatreonCheckTick)

\* After the startup, a tick has started the pending sweep while a run of
\* the entitlement sweep is in progress.
C23_Witness ==
    /\ ready = "armed"
    /\ sw.pc = "guild"
    /\ pat.pc \in {"add", "remove"}

\* C24 (pending-tier reconciliation adds unverified only at baseline), as
\* claimed: whenever a call of assignUnverifiedRole made by the join
\* handler or by the pending sweep issues the add of the unverified role,
\* the member holds no role beyond @everyone at that moment.
C24_AddOnlyAtBaseline ==
    [][\A k \in {JoinReason, SweepReason} \X Members :
          (asg'[k].pc = "add" /\ asg[k].pc # "add") => roles[k[2]] = {}]_vars

\* The lines by which a transaction tells how it ended.
TerminalLines(m) ==
    {Line("denied", m), Line("notfound", m), Line("hierarchy unverified", m),
     Line("hierarchy member", m), Line("not needed", m), Line("verified", m),
     Line("top-level error", m)}

InCleanupOrder(dels) ==
    \E w, c, r \in BOOLEAN :
        dels = (IF w THEN <<"welcome">> ELSE <<>>)
               \o (IF c THEN <<"command">> ELSE <<>>)
               \o (IF r THEN <<"reply">> ELSE <<>>)

IsDeleted(m, what) == \E i \in DOMAIN ver[m].dels : ver[m].dels[i] = what

\* C26 (order of the full cleanup).  In a transaction that has verified
\* the member and may delete messages, the deletions come in the order
\* welcome message (only if one was found), member's messages, reply; the
\* member's messages are deleted only after the fetch made after the swap,
\* and the reply only by the timer, set when the member's messages were
\* dealt with.
C26_CleanupOrder ==
    \A m \in Members :
        (/\ m \in cache
         /\ Line("verified", m) \in ver[m].log
         /\ ver[m].canManageMessages)
            => /\ InCleanupOrder(ver[m].dels)
               /\ IsDeleted(m, "welcome") => ver[m].welcomeFound
               /\ IsDeleted(m, "command") => ver[m].pc \in {"timer", "done"}
               /\ IsDeleted(m, "reply") => (ver[m].pc = "done" /\ WasReplied(m, "success"))

\* A full cleanup: the welcome message, the member's messages and, after
\* the delay, the reply were deleted.
C26_Witness ==
    \E m \in Members :
        /\ Line("verified", m) \in ver[m].log
        /\ ver[m].dels = <<"welcome", "command", "reply">>

\* The role set a single run of the pending sweep, and a single run of the
\* entitlement sweep, leave a member with, from the role set rs.
AfterRoleCheck(m, rs) ==
    IF /\ m \in cache /\ ~bot[m] /\ rs = {}
       /\ guild.manageRoles /\ CheckPasses(unverifiedRoleId)
    THEN {unverifiedRoleId} ELSE rs

AfterPatreonCheck(m, rs) ==
    IF /\ m \in cache /\ ~bot[m] /\ memberRoleId \notin rs
       /\ rs \cap patreonRoleIds # {}
       /\ PatChecksPass
    THEN (rs \cup {memberRoleId}) \ {unverifiedRoleId} ELSE rs

NothingRunning ==
    /\ ~RoleCheckRunning /\ ~RoleCheckRunningSecond
    /\ ~Running(pat.pc) /\ ~Running(second.pat.pc)

\* C27 (sweeps are not mutually exclusive).  A tick that finds a run of
\* its sweep in progress starts a second run at once (it is neither
\* skipped nor put off until the first has ended), and when every run has
\* ended the members hold the roles a single run of each sweep would have
\* left them with.
C27_OverlappingRuns ==
    /\ (RoleCheckRunning /\ ~RoleCheckRunningSecond) => ENABLED RoleCheckTick
    /\ (Running(pat.pc) /\ ~Running(second.pat.pc)) => ENABLED PatreonCheckTick
    /\ (NothingRunning /\ sw.pc = "done" /\ pat.pc = "done")
          => \A m \in Members :
                roles[m] = AfterPatreonCheck(m, AfterRoleCheck(m, roles0[m]))

\* Two runs of the entitlement sweep are in progress and both are updating
\* the same member.
C27_Witness ==
    /\ pat.pc \in {"add", "remove"}
    /\ second.pat.pc \in {"add", "remove"}
    /\ Head(pat.queue) = Head(second.pat.queue)

\* C28 (signature gate of the HTTP interaction handler), as claimed: the
\* handler reads the member, issues a role mutation or posts to the log
\* channel only for a POST whose signature verifies; a request that is no
\* POST is answered 405 and a POST without a signature that verifies is
\* answered 401, both with the member's roles unchanged.
C28_SignatureGate ==
    \A m \in Members :
        /\ (\/ http[m].pc \in {"get", "put", "delete", "post"}
            \/ http[m].calls # {}
            \/ http[m].log # {})
              => (http[m].request.method = "POST" /\ http[m].request.signature = "valid")
        /\ (http[m].pc = "done" /\ http[m].request.method = "GET")
              => (http[m].response = "405" /\ roles[m] = roles0[m])
        /\ (/\ http[m].pc = "done"
            /\ http[m].request.method = "POST"
            /\ http[m].request.signature # "valid")
              => (http[m].response = "401" /\ roles[m] = roles0[m])


\* The verify command of member m's interaction ends with this response.
HttpEnds(m, r) == http[m].pc # "done" /\ http'[m].pc = "done" /\ http'[m].response = r

\* C29 (outcome of the /verify interaction).  The handler issues the add of
\* member first, the remove of unverified only after the add succeeded and
\* the post to the log channel only after both succeeded; the success
\* response is returned only after the three succeeded, and a failure of
\* any of them ends in the failure response.  The handler issues no other
\* mutation, and the step that returns the failure response changes no
\* role: what was applied before the failure stays applied.
C29_VerifyOutcome ==
    /\ [](\A m \in Members :
            /\ http[m].calls \subseteq Swap(m)
            /\ http[m].pc = "put" => (http[m].calls = {Call("add", memberRoleId, m)} /\ ~http[m].failed)
            /\ http[m].pc = "delete" => (http[m].calls = Swap(m) /\ ~http[m].failed)
            /\ http[m].pc = "post"
                  => (http[m].calls = Swap(m) /\ ~http[m].failed /\ http[m].log = {})
            /\ http[m].response = "success"
                  => /\ http[m].calls = Swap(m)
                     /\ ~http[m].failed
                     /\ http[m].log = {Line("verified", m)}
            /\ (http[m].failed /\ http[m].request.signature = "valid")
                  => (http[m].response = "failed" /\ http[m].log = {}))
    /\ [][\A m \in Members :
            /\ HttpEnds(m, "failed") => roles' = roles
            /\ HttpEnds(m, "success") => http[m].pc = "post"]_vars

\* The add and the remove succeeded and the post failed: the member was
\* answered with the failure response and is verified all the same.
C29_Witness ==
    \E m \in Members :
        /\ http[m].response = "failed"
        /\ http[m].calls = Swap(m)
        /\ unverifiedRoleId \in roles0[m]
        /\ memberRoleId \notin roles0[m]
        /\ unverifiedRoleId \notin roles[m]
        /\ memberRoleId \in roles[m]

====
